---- MODULE Spec2Model ----
(***************************************************************************)
(* Model of cyclescope-daily-pulse: the date-keyed newsletter table        *)
(* (src/src/models/newsletter.js), the generation workflow                 *)
(* (src/src/services/newsletterService.js, ttsService.js) behind           *)
(* POST /api/newsletter/generate (src/src/routes/newsletter.js), the       *)
(* upsert script (src/scripts/test-connection.mjs) and the retention       *)
(* cleanup (src/src/services/cleanupService.js).                           *)
(*                                                                         *)
(* Every `await` of the JavaScript is a point where another request or job *)
(* may run, so each awaited call is one action.  Calls to the database,    *)
(* the file system and the two Gemini collaborators may throw; each such   *)
(* outcome is a nondeterministic choice.                                   *)
(***************************************************************************)
EXTENDS Integers, Sequences, FiniteSets, TLC

VARIABLES
  store,    \* table daily_newsletters: a set of rows
  nextId,   \* the SERIAL sequence behind daily_newsletters.id
  dbNow,    \* the database clock read by NOW(), one instant per statement
  files,    \* the audio directory: date of the file name -> [mtime, kind]
  now,      \* the process clock (new Date()), in ticks
  gen,      \* one POST /generate request per element of Runs
  test,     \* the upsert script scripts/test-connection.mjs
  cl,       \* one runCleanup() call per element of Cleaners
  lastUpsert, \* history: per date, the data of the last Newsletter.create that
             \* ran to completion since the start (forgotten when the row is deleted)
  stats,    \* the getCleanupStats() call behind GET /api/cleanup/stats
  sched,    \* cronScheduler.js: the cleanupJob singleton, the cron tasks, the trigger
  api       \* the last GET and the last DELETE request under /api/newsletter

vars == <<store, nextId, dbNow, files, now, gen, test, cl, lastUpsert, stats, sched, api>>

(***************************************************************************)
(* Constants of the program and bounds of the model                        *)
(***************************************************************************)
AUDIO_DAYS == 14
NEWSLETTER_DAYS == 365

\* Ticks of the process clock per calendar day.
TicksPerDay == 2
\* How many ticks the process clock may advance.
MaxTicks == 2

Null == "null"
\* audio_duration_seconds is an INTEGER column; `x || null` turns 0 into NULL,
\* so 0 stands for NULL.
NullInt == 0

\* Calendar days are numbered.  Today is the day the process starts.
Today == NEWSLETTER_DAYS + 1
\* publish_date exactly NEWSLETTER_DAYS before Today, and the day before it.
EdgeDay == Today - NEWSLETTER_DAYS
OldDay == EdgeDay - 1
Dates == {OldDay, EdgeDay, Today}
NoDay == OldDay - 1

StartNow == Today * TicksPerDay
DayOf(t) == t \div TicksPerDay

Runs == {"r1", "r2"}
Cleaners == {"cron", "manual"}

(***************************************************************************)
(* What the content collaborator can return                                *)
(***************************************************************************)
ContentIds == {"a", "b"}

Content(k) ==
  IF k = "a"
  THEN [title |-> "Stocks rally", hook |-> "hook a",
        sections |-> <<[heading |-> "Market Overview", content |-> "body a1"]>>,
        conclusion |-> "conclusion a",
        sources |-> <<>>,
        words |-> 1]
  ELSE [title |-> "Bonds slide", hook |-> "hook b",
        sections |-> <<[heading |-> "Market Overview", content |-> "body b1"],
                       [heading |-> "Key Developments", content |-> "body b2"]>>,
        conclusion |-> "conclusion b",
        sources |-> <<[url |-> "https://example.com/b", title |-> "source b"]>>,
        words |-> 151]

\* Math.ceil((wordCount / 150) * 60)
EstimatedDuration(wordCount) == (wordCount * 60 + 149) \div 150

\* `${config.publicUrl}/audio/daily-pulse-${date}.wav`: the URL names the
\* file of the row's own date.
AudioPublicUrl == "/audio/daily-pulse-<date>.wav"

(***************************************************************************)
(* Newsletter model                                                        *)
(***************************************************************************)
\* JavaScript `x || d` on strings.
OrStr(x, d) == IF x = Null \/ x = "" THEN d ELSE x
OrSeq(x) == x

\* The property names of the section and source objects, in the order the
\* program writes them.
JsonKeys == <<"heading", "content", "url", "title">>

\* The members of one object as JSON.stringify writes them: "key":value
\* pairs in property order.
ObjectMembers(o) ==
  LET ks == SelectSeq(JsonKeys, LAMBDA k : k \in DOMAIN o)
  IN [i \in 1..Len(ks) |-> <<ks[i], o[ks[i]]>>]

\* Faulty variant of JsonStringify: members whose value is null are left out
\* (as JSON.stringify does with undefined).
JsonStringifyDroppingNull(xs) ==
  [i \in 1..Len(xs) |->
     SelectSeq(ObjectMembers(xs[i]), LAMBDA m : m[2] # Null)]

\* JSON.stringify of an array of objects: the JSON text, as the sequence of
\* the member lists of its elements.
JsonStringify(xs) == [i \in 1..Len(xs) |-> ObjectMembers(xs[i])]

\* A JSONB column: the text is parsed on the way in; an object keeps one
\* value per key (the last), the order of the keys is not kept, the order
\* of the array elements is.  pg returns the value as a JavaScript array.
Jsonb(text) ==
  [i \in 1..Len(text) |->
     LET ms == text[i]
         last(k) == CHOOSE j \in 1..Len(ms) :
                      /\ ms[j][1] = k
                      /\ \A l \in (j + 1)..Len(ms) : ms[l][1] # k
     IN [k \in {ms[j][1] : j \in 1..Len(ms)} |-> ms[last(k)][2]]]

\* The values array of Newsletter.create.
Values(data) ==
  [publish_date |-> data.publish_date,
   title |-> data.title,
   hook |-> data.hook,
   sections |-> JsonStringify(OrSeq(data.sections)),
   conclusion |-> data.conclusion,
   sources |-> JsonStringify(OrSeq(data.sources)),
   audio_url |-> OrStr(data.audio_url, Null),
   audio_duration_seconds |-> data.audio_duration_seconds,
   generation_status |-> OrStr(data.generation_status, "pending"),
   error_message |-> OrStr(data.error_message, Null)]

RowsFor(st, d) == {row \in st : row.publish_date = d}

\* INSERT ... VALUES: a new row; id, created_at and updated_at take their
\* column defaults.
InsertedRow(v, id, ts) ==
  [id |-> id, publish_date |-> v.publish_date, title |-> v.title,
   hook |-> v.hook, sections |-> Jsonb(v.sections), conclusion |-> v.conclusion,
   sources |-> Jsonb(v.sources), audio_url |-> v.audio_url,
   audio_duration_seconds |-> v.audio_duration_seconds,
   generation_status |-> v.generation_status,
   error_message |-> v.error_message,
   created_at |-> ts, updated_at |-> ts]

\* Faulty variant of UpdatedRow: the SET list lacks audio_url.
UpdatedRowWithoutAudioUrl(row, v, ts) ==
  [row EXCEPT !.title = v.title, !.hook = v.hook, !.sections = Jsonb(v.sections),
              !.conclusion = v.conclusion, !.sources = Jsonb(v.sources),
              !.audio_duration_seconds = v.audio_duration_seconds,
              !.generation_status = v.generation_status,
              !.error_message = v.error_message,
              !.updated_at = ts]

\* Faulty variant of UpdatedRow: the SET list writes
\* COALESCE(EXCLUDED.x, newsletters.x) for the nullable columns, so a null
\* does not overwrite a value.
UpdatedRowCoalescing(row, v, ts) ==
  [row EXCEPT !.title = v.title, !.hook = v.hook, !.sections = Jsonb(v.sections),
              !.conclusion = v.conclusion, !.sources = Jsonb(v.sources),
              !.audio_url = IF v.audio_url = Null THEN row.audio_url ELSE v.audio_url,
              !.audio_duration_seconds =
                 IF v.audio_duration_seconds = NullInt
                 THEN row.audio_duration_seconds ELSE v.audio_duration_seconds,
              !.generation_status = v.generation_status,
              !.error_message =
                 IF v.error_message = Null THEN row.error_message ELSE v.error_message,
              !.updated_at = ts]

\* ON CONFLICT (publish_date) DO UPDATE SET ...: the row keeps id,
\* publish_date and created_at.
UpdatedRow(row, v, ts) ==
  [row EXCEPT !.title = v.title, !.hook = v.hook, !.sections = Jsonb(v.sections),
              !.conclusion = v.conclusion, !.sources = Jsonb(v.sources),
              !.audio_url = v.audio_url,
              !.audio_duration_seconds = v.audio_duration_seconds,
              !.generation_status = v.generation_status,
              !.error_message = v.error_message,
              !.updated_at = ts]

\* Faulty variant of Create: a plain INSERT on a table without the UNIQUE
\* constraint.
CreateInsertOnly(st, data, id, ts) == st \cup {InsertedRow(Values(data), id, ts)}

\* Faulty variant of Create: ON CONFLICT (publish_date) DO NOTHING.
CreateFirstWins(st, data, id, ts) ==
  IF RowsFor(st, data.publish_date) = {}
  THEN st \cup {InsertedRow(Values(data), id, ts)}
  ELSE st

\* Newsletter.create: the store after the statement.
Create(st, data, id, ts) ==
  LET v == Values(data) IN
  IF RowsFor(st, v.publish_date) = {}
  THEN st \cup {InsertedRow(v, id, ts)}
  ELSE {IF row.publish_date = v.publish_date THEN UpdatedRow(row, v, ts) ELSE row
        : row \in st}

\* Newsletter.delete
Delete(st, d) == {row \in st : row.publish_date # d}

\* Newsletter.getOlderThan
GetOlderThan(st, d) == {row \in st : row.publish_date < d}

\* Faulty variant of DeleteOlderThan: WHERE publish_date <= $1.
DeleteOlderOrEqual(st, d) == {row \in st : ~(row.publish_date <= d)}

\* Newsletter.deleteOlderThan
DeleteOlderThan(st, d) == {row \in st : ~(row.publish_date < d)}

(***************************************************************************)
(* Database and file system statements                                     *)
(***************************************************************************)
\* pool.query of Newsletter.create running to completion.  The sequence
\* behind id advances on every INSERT attempt, conflict or not.
DbCreate(data) ==
  /\ store' = Create(store, data, nextId, dbNow)
  /\ nextId' = nextId + 1
  /\ dbNow' = dbNow + 1
  /\ lastUpsert' = {x \in lastUpsert : x.publish_date # data.publish_date} \cup {data}

\* pool.query rejecting: the statement changed nothing.
DbThrow == UNCHANGED <<store, nextId, dbNow, lastUpsert>>

DbErrorMessage == "database error"
FsErrorMessage == "ENOSPC: no space left on device"
ContentErrorMessage == "Newsletter generation failed: api error"

FileNames == DOMAIN files

\* fs.writeFile resolving: the file holds the whole buffer.
WriteFile(d, kind) ==
  files' = [x \in FileNames \cup {d} |->
              IF x = d THEN [mtime |-> now, kind |-> kind] ELSE files[x]]

\* fs.mkdir or fs.writeFile rejecting: the file is untouched (the directory
\* or the open failed) or holds a truncated buffer.
WriteFileThrow(d) ==
  \/ UNCHANGED files
  \/ WriteFile(d, "partial")

\* Faulty variant of Unlink: the call resolves and removes nothing.
UnlinkNothing(d) == UNCHANGED files

\* fs.unlink resolving.
Unlink(d) == files' = [x \in FileNames \ {d} |-> files[x]]

(***************************************************************************)
(* generateDailyNewsletter behind POST /api/newsletter/generate            *)
(***************************************************************************)
\* Faulty variant of GeneratingData: step 1 changes the status of an
\* existing record and passes its other fields on.
GeneratingDataKeepingContent(d) ==
  IF RowsFor(store, d) = {}
  THEN [publish_date |-> d, title |-> "Generating newsletter for <date>...",
        hook |-> "", sections |-> <<>>, conclusion |-> "", sources |-> <<>>,
        audio_url |-> Null, audio_duration_seconds |-> NullInt,
        generation_status |-> "generating", error_message |-> Null]
  ELSE LET row == CHOOSE x \in RowsFor(store, d) : TRUE
       IN [publish_date |-> d, title |-> row.title,
           hook |-> row.hook, sections |-> row.sections,
           conclusion |-> row.conclusion, sources |-> row.sources,
           audio_url |-> row.audio_url,
           audio_duration_seconds |-> row.audio_duration_seconds,
           generation_status |-> "generating", error_message |-> Null]

GeneratingData(d) ==
  [publish_date |-> d, title |-> "Generating newsletter for <date>...",
   hook |-> "", sections |-> <<>>, conclusion |-> "", sources |-> <<>>,
   audio_url |-> Null, audio_duration_seconds |-> NullInt,
   generation_status |-> "generating", error_message |-> Null]

CompleteData(d, k) ==
  [publish_date |-> d, title |-> Content(k).title, hook |-> Content(k).hook,
   sections |-> Content(k).sections, conclusion |-> Content(k).conclusion,
   sources |-> Content(k).sources,
   audio_url |-> AudioPublicUrl,
   audio_duration_seconds |-> EstimatedDuration(Content(k).words),
   generation_status |-> "complete", error_message |-> Null]

\* Faulty variant of FailedData: the catch block drops error.message.
FailedDataWithoutMessage(d, msg) ==
  [publish_date |-> d, title |-> "Failed to generate newsletter for <date>",
   hook |-> "", sections |-> <<>>, conclusion |-> "", sources |-> <<>>,
   audio_url |-> Null, audio_duration_seconds |-> NullInt,
   generation_status |-> "failed", error_message |-> Null]

FailedData(d, msg) ==
  [publish_date |-> d, title |-> "Failed to generate newsletter for <date>",
   hook |-> "", sections |-> <<>>, conclusion |-> "", sources |-> <<>>,
   audio_url |-> Null, audio_duration_seconds |-> NullInt,
   generation_status |-> "failed", error_message |-> msg]

\* apiKey and dateKind are what the request carried, as far as the route
\* has read it.
IdleRun ==
  [pc |-> "idle", date |-> NoDay, content |-> Null, ttsError |-> FALSE,
   wrote |-> FALSE, err |-> Null, resp |-> "none",
   apiKey |-> "unread", dateKind |-> "unread"]

\* process.env.API_SECRET_KEY, which validateConfig requires to be set, and
\* the values of the x-api-key header: absent, another string, the secret.
API_SECRET_KEY == "secret"
ApiKeys == {"undefined", "wrong", API_SECRET_KEY}

\* generateDailyNewsletter has returned or thrown (its locals are gone) and
\* the route has answered.
Returned200(d) == [IdleRun EXCEPT !.pc = "done", !.date = d, !.resp = "200"]
Returned500(d) == [IdleRun EXCEPT !.pc = "done", !.date = d, !.resp = "500"]

\* Faulty variant of Request: the date is checked before the API key.
RequestDateFirst(r, apiKey, dateKind, d) ==
  /\ gen[r].pc = "idle"
  /\ IF dateKind # "valid"
     THEN gen' = [gen EXCEPT ![r].pc = "done", ![r].resp = "400",
                             ![r].apiKey = apiKey, ![r].dateKind = dateKind]
     ELSE IF apiKey # API_SECRET_KEY
     THEN gen' = [gen EXCEPT ![r].pc = "done", ![r].resp = "401",
                             ![r].apiKey = apiKey, ![r].dateKind = dateKind]
     ELSE gen' = [gen EXCEPT ![r].pc = "step1", ![r].date = d,
                             ![r].apiKey = apiKey, ![r].dateKind = dateKind]
  /\ UNCHANGED <<store, nextId, dbNow, lastUpsert, files, now, test, cl, stats, sched, api>>

\* router.post('/generate') up to the call of generateDailyNewsletter.
Request(r, apiKey, dateKind, d) ==
  /\ gen[r].pc = "idle"
  /\ IF apiKey # API_SECRET_KEY
     THEN gen' = [gen EXCEPT ![r].pc = "done", ![r].resp = "401",
                             ![r].apiKey = apiKey]
     ELSE IF dateKind # "valid"
     THEN gen' = [gen EXCEPT ![r].pc = "done", ![r].resp = "400",
                             ![r].apiKey = apiKey, ![r].dateKind = dateKind]
     ELSE gen' = [gen EXCEPT ![r].pc = "step1", ![r].date = d,
                             ![r].apiKey = apiKey, ![r].dateKind = dateKind]
  /\ UNCHANGED <<store, nextId, dbNow, lastUpsert, files, now, test, cl, stats, sched, api>>

\* Step 1: await Newsletter.create({... generation_status: 'generating'})
GenStep1(r) ==
  /\ gen[r].pc = "step1"
  /\ \/ /\ DbCreate(GeneratingData(gen[r].date))
        /\ gen' = [gen EXCEPT ![r].pc = "content"]
     \/ /\ DbThrow
        /\ gen' = [gen EXCEPT ![r].pc = "catch", ![r].err = DbErrorMessage]
  /\ UNCHANGED <<files, now, test, cl, stats, sched, api>>

\* Faulty variant of GenContent: a watchdog gives up on the pending call and
\* marks the record failed while the call is still awaited.
GenContentTimingOut(r) ==
  /\ gen[r].pc = "content"
  /\ \/ /\ \/ \E k \in ContentIds : gen' = [gen EXCEPT ![r].pc = "tts", ![r].content = k]
           \/ gen' = [gen EXCEPT ![r].pc = "catch", ![r].err = ContentErrorMessage]
        /\ UNCHANGED <<store, nextId, dbNow, lastUpsert>>
     \/ /\ \E row \in RowsFor(store, gen[r].date) : row.generation_status = "generating"
        /\ DbCreate(FailedData(gen[r].date, "timeout"))
        /\ UNCHANGED gen
  /\ UNCHANGED <<files, now, test, cl, stats, sched, api>>

\* Step 2: const content = await generateNewsletterContent(date)
GenContent(r) ==
  /\ gen[r].pc = "content"
  /\ \/ \E k \in ContentIds : gen' = [gen EXCEPT ![r].pc = "tts", ![r].content = k]
     \/ gen' = [gen EXCEPT ![r].pc = "catch", ![r].err = ContentErrorMessage]
  /\ UNCHANGED <<store, nextId, dbNow, lastUpsert, files, now, test, cl, stats, sched, api>>

\* generateNewsletterAudio: await ai.models.generateContent(...) and the
\* decoding of its answer; a throw is caught by the function's own catch.
GenTts(r) ==
  /\ gen[r].pc = "tts"
  /\ \/ gen' = [gen EXCEPT ![r].pc = "write"]
     \/ gen' = [gen EXCEPT ![r].pc = "placeholder", ![r].ttsError = TRUE]
  /\ UNCHANGED <<store, nextId, dbNow, lastUpsert, files, now, test, cl, stats, sched, api>>

\* generateNewsletterAudio: await fs.mkdir; await fs.writeFile(outputPath, wavBuffer)
GenWrite(r) ==
  /\ gen[r].pc = "write"
  /\ \/ /\ WriteFile(gen[r].date, "tts")
        /\ gen' = [gen EXCEPT ![r].pc = "final", ![r].wrote = TRUE]
     \/ /\ WriteFileThrow(gen[r].date)
        /\ gen' = [gen EXCEPT ![r].pc = "placeholder", ![r].ttsError = TRUE]
  /\ UNCHANGED <<store, nextId, dbNow, lastUpsert, now, test, cl, stats, sched, api>>

\* Faulty variant of GenPlaceholder: createPlaceholderAudio logs its own
\* write error and returns, as the copy of ttsService.js kept at the end of
\* src/src/services/cronScheduler.js does.
GenPlaceholderSwallowing(r) ==
  /\ gen[r].pc = "placeholder"
  /\ \/ /\ WriteFile(gen[r].date, "placeholder")
        /\ gen' = [gen EXCEPT ![r].pc = "final", ![r].wrote = TRUE]
     \/ /\ WriteFileThrow(gen[r].date)
        /\ gen' = [gen EXCEPT ![r].pc = "final"]
  /\ UNCHANGED <<store, nextId, dbNow, lastUpsert, now, test, cl, stats, sched, api>>

\* Faulty variant of GenPlaceholder: when the placeholder cannot be written
\* the narration is tried again.
GenPlaceholderRetrying(r) ==
  /\ gen[r].pc = "placeholder"
  /\ \/ /\ WriteFile(gen[r].date, "placeholder")
        /\ gen' = [gen EXCEPT ![r].pc = "final", ![r].wrote = TRUE]
     \/ /\ WriteFileThrow(gen[r].date)
        /\ gen' = [gen EXCEPT ![r].pc = "tts"]
  /\ UNCHANGED <<store, nextId, dbNow, lastUpsert, now, test, cl, stats, sched, api>>

\* generateNewsletterAudio's catch: await createPlaceholderAudio(outputPath),
\* which rethrows when its own write fails.
GenPlaceholder(r) ==
  /\ gen[r].pc = "placeholder"
  /\ \/ /\ WriteFile(gen[r].date, "placeholder")
        /\ gen' = [gen EXCEPT ![r].pc = "final", ![r].wrote = TRUE]
     \/ /\ WriteFileThrow(gen[r].date)
        /\ gen' = [gen EXCEPT ![r].pc = "catch", ![r].err = FsErrorMessage]
  /\ UNCHANGED <<store, nextId, dbNow, lastUpsert, now, test, cl, stats, sched, api>>

\* Step 5: await Newsletter.create({... generation_status: 'complete'});
\* the route answers res.json({success: true, ...}).
GenFinal(r) ==
  /\ gen[r].pc = "final"
  /\ \/ /\ DbCreate(CompleteData(gen[r].date, gen[r].content))
        /\ gen' = [gen EXCEPT ![r] = Returned200(gen[r].date)]
     \/ /\ DbThrow
        /\ gen' = [gen EXCEPT ![r].pc = "catch", ![r].err = DbErrorMessage]
  /\ UNCHANGED <<files, now, test, cl, stats, sched, api>>

\* catch (error): await Newsletter.create({... generation_status: 'failed'});
\* throw error.  Whether the statement succeeds or rejects, an error leaves
\* generateDailyNewsletter and the route answers res.status(500).
GenCatch(r) ==
  /\ gen[r].pc = "catch"
  /\ \/ DbCreate(FailedData(gen[r].date, gen[r].err))
     \/ DbThrow
  /\ gen' = [gen EXCEPT ![r] = Returned500(gen[r].date)]
  /\ UNCHANGED <<files, now, test, cl, stats, sched, api>>

(***************************************************************************)
(* scripts/test-connection.mjs: testUpsert                                 *)
(***************************************************************************)
\* The script's sources are bare URL strings; a string s is written
\* [url |-> s, title |-> Null] so that every source has one shape.
TestData(version) ==
  IF version = 1
  THEN [publish_date |-> test.date, title |-> "Test Newsletter v1",
        hook |-> "This is the first version",
        sections |-> <<[heading |-> "Section 1", content |-> "Content v1"]>>,
        conclusion |-> "Conclusion v1",
        sources |-> <<[url |-> "https://example.com/source1", title |-> Null]>>,
        audio_url |-> Null, audio_duration_seconds |-> NullInt,
        generation_status |-> "complete", error_message |-> Null]
  ELSE [publish_date |-> test.date, title |-> "Test Newsletter v2 - UPDATED",
        hook |-> "This is the UPDATED version",
        sections |-> <<[heading |-> "Section 1", content |-> "Content v2 - UPDATED"],
                       [heading |-> "Section 2", content |-> "New section added"]>>,
        conclusion |-> "Conclusion v2 - UPDATED",
        sources |-> <<[url |-> "https://example.com/source1", title |-> Null],
                      [url |-> "https://example.com/source2", title |-> Null]>>,
        audio_url |-> Null, audio_duration_seconds |-> NullInt,
        generation_status |-> "complete", error_message |-> Null]

IdleTest ==
  [pc |-> "idle", date |-> NoDay, id1 |-> 0, upd1 |-> 0, id2 |-> 0, upd2 |-> 0,
   passed |-> FALSE, exit |-> "none"]

\* RETURNING *: the row of the statement's date.
Returned(st, d) == CHOOSE row \in RowsFor(st, d) : TRUE

\* const testDate = new Date().toISOString().split('T')[0]
TestStart ==
  /\ test.pc = "idle"
  /\ test' = [test EXCEPT !.pc = "create1", !.date = DayOf(now)]
  /\ UNCHANGED <<store, nextId, dbNow, lastUpsert, files, now, gen, cl, stats, sched, api>>

\* Test 1: const newsletter1 = await Newsletter.create({... v1 ...})
TestCreate1 ==
  /\ test.pc = "create1"
  /\ \/ /\ DbCreate(TestData(1))
        /\ test' = [test EXCEPT !.pc = "create2",
                                !.id1 = Returned(store', test.date).id,
                                !.upd1 = Returned(store', test.date).updated_at]
     \/ /\ DbThrow
        /\ test' = [IdleTest EXCEPT !.pc = "done", !.exit = "1"]
  /\ UNCHANGED <<files, now, gen, cl, stats, sched, api>>

\* Test 2: const newsletter2 = await Newsletter.create({... v2 ...})
TestCreate2 ==
  /\ test.pc = "create2"
  /\ \/ /\ DbCreate(TestData(2))
        /\ test' = [test EXCEPT !.pc = "get",
                                !.id2 = Returned(store', test.date).id,
                                !.upd2 = Returned(store', test.date).updated_at]
     \/ /\ DbThrow
        /\ test' = [IdleTest EXCEPT !.pc = "done", !.exit = "1"]
  /\ UNCHANGED <<files, now, gen, cl, stats, sched, api>>

\* Tests 3 and 4: const retrieved = await Newsletter.getByDate(testDate) and
\* the checks.  The query may reject, and reading a field of a null
\* `retrieved` throws: both reach the catch and process.exit(1).
TestGet ==
  /\ test.pc = "get"
  /\ \/ /\ RowsFor(store, test.date) # {}
        /\ LET retrieved == Returned(store, test.date) IN
           test' = [test EXCEPT !.pc = "delete",
                      !.passed = /\ test.id1 = test.id2
                                 /\ retrieved.title = "Test Newsletter v2 - UPDATED"
                                 /\ retrieved.hook = "This is the UPDATED version"
                                 /\ Len(retrieved.sections) = 2
                                 /\ Len(retrieved.sources) = 2
                                 /\ test.upd2 > test.upd1]
     \/ test' = [IdleTest EXCEPT !.pc = "done", !.exit = "1"]
  /\ UNCHANGED <<store, nextId, dbNow, lastUpsert, files, now, gen, cl, stats, sched, api>>

\* Cleanup: await Newsletter.delete(testDate); process.exit(0)
TestDelete ==
  /\ test.pc = "delete"
  /\ \/ /\ store' = Delete(store, test.date)
        /\ lastUpsert' = {x \in lastUpsert : x.publish_date # test.date}
        /\ test' = [IdleTest EXCEPT !.pc = "done", !.exit = "0"]
     \/ /\ UNCHANGED <<store, lastUpsert>>
        /\ test' = [IdleTest EXCEPT !.pc = "done", !.exit = "1"]
  /\ UNCHANGED <<nextId, dbNow, files, now, gen, cl, stats, sched, api>>

(***************************************************************************)
(* runCleanup: cleanupAudioFiles, then cleanupNewsletterRecords            *)
(***************************************************************************)
\* `vanished` is history: how many of the counted errors were a stat or an
\* unlink of a file that was no longer there.
IdleCleaner ==
  [pc |-> "idle", audioCutoff |-> 0, list |-> <<>>, idx |-> 1, mtime |-> 0,
   deleted |-> 0, errors |-> 0, delFiles |-> <<>>,
   textCutoff |-> 0, newslettersDeleted |-> 0, databaseErrors |-> 0,
   vanished |-> 0]

\* The names readdir returns, in name order.
RECURSIVE SortedSeq(_)
SortedSeq(S) ==
  IF S = {} THEN <<>>
  ELSE LET m == CHOOSE x \in S : \A y \in S : x <= y
       IN <<m>> \o SortedSeq(S \ {m})

\* Faulty variant of AudioCutoff: the retention window is not subtracted.
AudioCutoffWithoutWindow(t) == t

\* cutoffDate.setDate(cutoffDate.getDate() - RETENTION_POLICY.AUDIO_DAYS)
AudioCutoff(t) == t - AUDIO_DAYS * TicksPerDay

\* cutoffDate.setDate(... - RETENTION_POLICY.NEWSLETTER_DAYS);
\* cutoffDate.toISOString().split('T')[0]
TextCutoff(t) == DayOf(t - NEWSLETTER_DAYS * TicksPerDay)

\* Faulty variant of OlderThan: stats.mtime <= cutoffDate.
OlderOrEqual(mtime, cutoff) == mtime <= cutoff

\* stats.mtime < cutoffDate
OlderThan(mtime, cutoff) == mtime < cutoff

\* cleanupAudioFiles returns; cleanupNewsletterRecords computes its cutoff
\* and awaits Newsletter.getOlderThan.
EnterRecordPass(c, rec) ==
  cl' = [cl EXCEPT ![c] = [rec EXCEPT !.pc = "getOlder", !.textCutoff = TextCutoff(now)]]

\* The for loop moves to the next file, or ends.
NextFile(c, rec) ==
  IF rec.idx < Len(rec.list)
  THEN cl' = [cl EXCEPT ![c] = [rec EXCEPT !.pc = "stat", !.idx = rec.idx + 1]]
  ELSE EnterRecordPass(c, rec)

\* Faulty variant of FileError: the error leaves the for loop.
FileErrorAborting(c, rec) ==
  EnterRecordPass(c, [rec EXCEPT !.errors = rec.errors + 1])

\* The per-file catch: result.errors++, and the loop goes on.
FileError(c, rec) ==
  NextFile(c, [rec EXCEPT !.errors = rec.errors + 1])

\* runCleanup() is called: by the cron job or by POST /api/cleanup/run.
CleanStart(c) ==
  /\ cl[c].pc = "idle"
  /\ cl' = [cl EXCEPT ![c].pc = "access"]
  /\ UNCHANGED <<store, nextId, dbNow, lastUpsert, files, now, gen, test, stats, sched, api>>

\* await fs.access(audioDir): rejects when the directory does not exist, and
\* then no file exists either.
CleanAccess(c) ==
  /\ cl[c].pc = "access"
  /\ \/ cl' = [cl EXCEPT ![c].pc = "readdir"]
     \/ /\ FileNames = {}
        /\ EnterRecordPass(c, cl[c])
  /\ UNCHANGED <<store, nextId, dbNow, lastUpsert, files, now, gen, test, stats, sched, api>>

\* const files = await fs.readdir(audioDir); the cutoff is computed next.
\* A rejection reaches the outer catch: result.errors++.
CleanReaddir(c) ==
  /\ cl[c].pc = "readdir"
  /\ \/ LET rec == [cl[c] EXCEPT !.list = SortedSeq(FileNames),
                                 !.audioCutoff = AudioCutoff(now),
                                 !.idx = 0]
        IN NextFile(c, rec)
     \/ EnterRecordPass(c, [cl[c] EXCEPT !.errors = cl[c].errors + 1])
  /\ UNCHANGED <<store, nextId, dbNow, lastUpsert, files, now, gen, test, stats, sched, api>>

CurFile(c) == cl[c].list[cl[c].idx]

\* const stats = await fs.stat(filePath); if (stats.mtime < cutoffDate) ...
\* A rejection (an I/O error, or the file is gone) is counted.
CleanStat(c) ==
  /\ cl[c].pc = "stat"
  /\ \/ /\ CurFile(c) \in FileNames
        /\ IF OlderThan(files[CurFile(c)].mtime, cl[c].audioCutoff)
           THEN cl' = [cl EXCEPT ![c].pc = "unlink", ![c].mtime = files[CurFile(c)].mtime]
           ELSE NextFile(c, cl[c])
     \/ /\ CurFile(c) \in FileNames
        /\ FileError(c, cl[c])
     \/ /\ CurFile(c) \notin FileNames
        /\ FileError(c, [cl[c] EXCEPT !.vanished = cl[c].vanished + 1])
  /\ UNCHANGED <<store, nextId, dbNow, lastUpsert, files, now, gen, test, stats, sched, api>>

\* Faulty variant of CleanUnlink: the audio pass also clears the audio_url
\* of the record of the file it deletes.
CleanUnlinkClearingUrl(c) ==
  /\ cl[c].pc = "unlink"
  /\ \/ /\ CurFile(c) \in FileNames
        /\ Unlink(CurFile(c))
        /\ store' = {IF row.publish_date = CurFile(c)
                     THEN [row EXCEPT !.audio_url = Null] ELSE row : row \in store}
        /\ NextFile(c, [cl[c] EXCEPT
               !.deleted = cl[c].deleted + 1,
               !.delFiles = Append(cl[c].delFiles,
                                   [name |-> CurFile(c), modified |-> cl[c].mtime])])
     \/ /\ UNCHANGED <<files, store>>
        /\ FileError(c, cl[c])
  /\ UNCHANGED <<nextId, dbNow, lastUpsert, now, gen, test, stats, sched, api>>

\* Faulty variant of CleanUnlink: result.deleted++ and result.files.push
\* come before await fs.unlink.
CleanUnlinkCountingFirst(c) ==
  /\ cl[c].pc = "unlink"
  /\ LET counted == [cl[c] EXCEPT
                       !.deleted = cl[c].deleted + 1,
                       !.delFiles = Append(cl[c].delFiles,
                                           [name |-> CurFile(c), modified |-> cl[c].mtime])]
     IN \/ /\ CurFile(c) \in FileNames
           /\ Unlink(CurFile(c))
           /\ NextFile(c, counted)
        \/ /\ CurFile(c) \in FileNames
           /\ UNCHANGED files
           /\ FileError(c, counted)
        \/ /\ CurFile(c) \notin FileNames
           /\ UNCHANGED files
           /\ FileError(c, [counted EXCEPT !.vanished = cl[c].vanished + 1])
  /\ UNCHANGED <<store, nextId, dbNow, lastUpsert, now, gen, test, stats, sched, api>>

\* await fs.unlink(filePath); result.deleted++; result.files.push(...)
CleanUnlink(c) ==
  /\ cl[c].pc = "unlink"
  /\ \/ /\ CurFile(c) \in FileNames
        /\ Unlink(CurFile(c))
        /\ NextFile(c, [cl[c] EXCEPT
               !.deleted = cl[c].deleted + 1,
               !.delFiles = Append(cl[c].delFiles,
                                   [name |-> CurFile(c), modified |-> cl[c].mtime])])
     \/ /\ CurFile(c) \in FileNames
        /\ UNCHANGED files
        /\ FileError(c, cl[c])
     \/ /\ CurFile(c) \notin FileNames
        /\ UNCHANGED files
        /\ FileError(c, [cl[c] EXCEPT !.vanished = cl[c].vanished + 1])
  /\ UNCHANGED <<store, nextId, dbNow, lastUpsert, now, gen, test, stats, sched, api>>

\* Faulty variant of CleanGetOlder: cleanupNewsletterRecords has no
\* try/catch, the rejection leaves runCleanup (pc "thrown").
CleanGetOlderPropagating(c) ==
  /\ cl[c].pc = "getOlder"
  /\ \/ IF GetOlderThan(store, cl[c].textCutoff) = {}
        THEN cl' = [cl EXCEPT ![c].pc = "done"]
        ELSE cl' = [cl EXCEPT ![c].pc = "deleteOlder"]
     \/ cl' = [cl EXCEPT ![c].pc = "thrown"]
  /\ UNCHANGED <<store, nextId, dbNow, lastUpsert, files, now, gen, test, stats, sched, api>>

\* const oldNewsletters = await Newsletter.getOlderThan(cutoffDateStr);
\* if (oldNewsletters.length === 0) return result
CleanGetOlder(c) ==
  /\ cl[c].pc = "getOlder"
  /\ \/ IF GetOlderThan(store, cl[c].textCutoff) = {}
        THEN cl' = [cl EXCEPT ![c].pc = "done"]
        ELSE cl' = [cl EXCEPT ![c].pc = "deleteOlder"]
     \/ cl' = [cl EXCEPT ![c].pc = "done",
                         ![c].databaseErrors = cl[c].databaseErrors + 1]
  /\ UNCHANGED <<store, nextId, dbNow, lastUpsert, files, now, gen, test, stats, sched, api>>

\* const deleteResult = await Newsletter.deleteOlderThan(cutoffDateStr);
\* result.deleted = deleteResult.count
CleanDeleteOlder(c) ==
  /\ cl[c].pc = "deleteOlder"
  /\ \/ /\ store' = DeleteOlderThan(store, cl[c].textCutoff)
        /\ lastUpsert' = {x \in lastUpsert : ~(x.publish_date < cl[c].textCutoff)}
        /\ cl' = [cl EXCEPT ![c].pc = "done",
                    ![c].newslettersDeleted =
                        Cardinality(store) - Cardinality(DeleteOlderThan(store, cl[c].textCutoff))]
     \/ /\ UNCHANGED <<store, lastUpsert>>
        /\ cl' = [cl EXCEPT ![c].pc = "done",
                            ![c].databaseErrors = cl[c].databaseErrors + 1]
  /\ UNCHANGED <<nextId, dbNow, files, now, gen, test, stats, sched, api>>

(***************************************************************************)
(* getCleanupStats behind GET /api/cleanup/stats                           *)
(***************************************************************************)
\* `caught` counts the entries into the two catch blocks; the snapshot the
\* function returns does not carry it.
IdleStats ==
  [pc |-> "idle", audioCutoff |-> 0, list |-> <<>>, idx |-> 1, total |-> 0,
   toDelete |-> 0, textCutoff |-> 0, nlTotal |-> 0, nlToDelete |-> 0, caught |-> 0]

\* Faulty variant of StatsOlderThan: fileStats.mtime <= audioCutoff.
StatsOlderOrEqual(mtime, cutoff) == mtime <= cutoff

\* fileStats.mtime < audioCutoff
StatsOlderThan(mtime, cutoff) == mtime < cutoff

\* The audio part ends (or its catch is left); the newsletter cutoff is
\* computed and Newsletter.getAll awaited.
EnterNewsletterStats(rec) ==
  stats' = [rec EXCEPT !.pc = "getAll", !.textCutoff = TextCutoff(now)]

\* The for loop of getCleanupStats moves to the next file, or ends.
NextStatsFile(rec) ==
  IF rec.idx < Len(rec.list)
  THEN stats' = [rec EXCEPT !.pc = "stat", !.idx = rec.idx + 1]
  ELSE EnterNewsletterStats(rec)

\* getCleanupStats() is called; audioCutoff is computed before the listing.
StatsStart ==
  /\ stats.pc = "idle"
  /\ stats' = [stats EXCEPT !.pc = "readdir", !.audioCutoff = AudioCutoff(now)]
  /\ UNCHANGED <<store, nextId, dbNow, lastUpsert, files, now, gen, test, cl, sched, api>>

\* const files = await fs.readdir(audioDir); a rejection reaches the inner
\* catch ("Directory doesn't exist, that's ok").
StatsReaddir ==
  /\ stats.pc = "readdir"
  /\ \/ NextStatsFile([stats EXCEPT !.list = SortedSeq(FileNames),
                                    !.total = Cardinality(FileNames),
                                    !.idx = 0])
     \/ EnterNewsletterStats([stats EXCEPT !.caught = stats.caught + 1])
  /\ UNCHANGED <<store, nextId, dbNow, lastUpsert, files, now, gen, test, cl, sched, api>>

StatsFile == stats.list[stats.idx]

\* const fileStats = await fs.stat(filePath); if (fileStats.mtime < audioCutoff)
\* toDelete++.  A rejection leaves the loop through the inner catch.
StatsStat ==
  /\ stats.pc = "stat"
  /\ \/ /\ StatsFile \in FileNames
        /\ IF StatsOlderThan(files[StatsFile].mtime, stats.audioCutoff)
           THEN NextStatsFile([stats EXCEPT !.toDelete = stats.toDelete + 1])
           ELSE NextStatsFile(stats)
     \/ EnterNewsletterStats([stats EXCEPT !.caught = stats.caught + 1])
  /\ UNCHANGED <<store, nextId, dbNow, lastUpsert, files, now, gen, test, cl, sched, api>>

\* const allNewsletters = await Newsletter.getAll(); a rejection reaches the
\* outer catch and the snapshot is returned as it is.
StatsGetAll ==
  /\ stats.pc = "getAll"
  /\ \/ stats' = [stats EXCEPT !.pc = "getOlder", !.nlTotal = Cardinality(store)]
     \/ stats' = [stats EXCEPT !.pc = "done", !.caught = stats.caught + 1]
  /\ UNCHANGED <<store, nextId, dbNow, lastUpsert, files, now, gen, test, cl, sched, api>>

\* Faulty variant of StatsGetOlder: the preview runs the DELETE.
StatsGetOlderDeleting ==
  /\ stats.pc = "getOlder"
  /\ stats' = [stats EXCEPT !.pc = "done",
                  !.nlToDelete = Cardinality(GetOlderThan(store, stats.textCutoff))]
  /\ store' = DeleteOlderThan(store, stats.textCutoff)
  /\ UNCHANGED <<nextId, dbNow, lastUpsert, files, now, gen, test, cl, sched, api>>

\* const oldNewsletters = await Newsletter.getOlderThan(cutoff);
\* stats.newsletters.toDelete = oldNewsletters.length
StatsGetOlder ==
  /\ stats.pc = "getOlder"
  /\ \/ stats' = [stats EXCEPT !.pc = "done",
                     !.nlToDelete = Cardinality(GetOlderThan(store, stats.textCutoff))]
     \/ stats' = [stats EXCEPT !.pc = "done", !.caught = stats.caught + 1]
  /\ UNCHANGED <<store, nextId, dbNow, lastUpsert, files, now, gen, test, cl, sched, api>>

StatsStep ==
  \/ StatsStart
  \/ StatsReaddir
  \/ StatsStat
  \/ StatsGetAll
  \/ StatsGetOlder

(***************************************************************************)
(* cronScheduler.js                                                        *)
(***************************************************************************)
\* let cleanupJob = null: 0 stands for null, a task is named by its number.
\* active: the tasks cron.schedule has registered and nobody stopped.
\* outcome: where the callback of the last trigger stands.
\* running, nextRun: the last answer of getSchedulerStatus (0 for null).
\* History: created and calls count the tasks and the start/stop calls,
\* idleStops the stop calls that found no task; since, lastFire, jobFires and
\* failures tell when the registered task was created, when a trigger last
\* fired, how often the registered task fired and how many callbacks caught
\* an error; statusAt and statusJob are the clock and the handle at the last
\* getSchedulerStatus call.
IdleSched ==
  [cleanupJob |-> 0, active |-> {}, created |-> 0, calls |-> 0, idleStops |-> 0,
   since |-> 0, lastFire |-> 0, jobFires |-> 0, failures |-> 0,
   outcome |-> "none", running |-> FALSE, nextRun |-> 0,
   statusAt |-> 0, statusJob |-> 0]

\* The tick of a day that stands for 02:00:00.000 UTC ('0 2 * * *').
FireTick == 1
\* How many startCleanupScheduler/stopCleanupScheduler calls are followed.
MaxCalls == 3
\* How far the clock advances when the scheduler is followed: two days.
SchedHorizon == 2 * TicksPerDay

IsFireInstant(t) == t % TicksPerDay = FireTick

\* Faulty variant of GetNextRunTime: if (next < now).
GetNextRunTimeNotStrict(t) ==
  LET next == DayOf(t) * TicksPerDay + FireTick
  IN IF next < t THEN next + TicksPerDay ELSE next

\* next.setUTCHours(2, 0, 0, 0); if (next <= now) next.setUTCDate(+1)
GetNextRunTime(t) ==
  LET next == DayOf(t) * TicksPerDay + FireTick
  IN IF next <= t THEN next + TicksPerDay ELSE next

\* Faulty variant of StartCleanupScheduler: the task of an earlier start is
\* not stopped.
StartWithoutStop ==
  /\ sched.calls < MaxCalls
  /\ sched' = [sched EXCEPT
        !.active = sched.active \cup {sched.created + 1},
        !.cleanupJob = sched.created + 1,
        !.created = sched.created + 1,
        !.calls = sched.calls + 1,
        !.since = now, !.lastFire = now, !.jobFires = 0]
  /\ UNCHANGED <<store, nextId, dbNow, lastUpsert, files, now, gen, test, cl, stats, api>>

\* startCleanupScheduler(): if (cleanupJob) cleanupJob.stop();
\* cleanupJob = cron.schedule(...).  The task fires at the 02:00 instants
\* after its creation.
StartCleanupScheduler ==
  /\ sched.calls < MaxCalls
  /\ sched' = [sched EXCEPT
        !.active = (IF sched.cleanupJob # 0
                    THEN sched.active \ {sched.cleanupJob}
                    ELSE sched.active) \cup {sched.created + 1},
        !.cleanupJob = sched.created + 1,
        !.created = sched.created + 1,
        !.calls = sched.calls + 1,
        !.since = now, !.lastFire = now, !.jobFires = 0]
  /\ UNCHANGED <<store, nextId, dbNow, lastUpsert, files, now, gen, test, cl, stats, api>>

\* stopCleanupScheduler(): if (cleanupJob) { cleanupJob.stop(); cleanupJob = null }
StopCleanupScheduler ==
  /\ sched.calls < MaxCalls
  /\ IF sched.cleanupJob # 0
     THEN sched' = [sched EXCEPT
            !.active = sched.active \ {sched.cleanupJob},
            !.cleanupJob = 0,
            !.calls = sched.calls + 1]
     ELSE sched' = [sched EXCEPT
            !.calls = sched.calls + 1,
            !.idleStops = sched.idleStops + 1]
  /\ UNCHANGED <<store, nextId, dbNow, lastUpsert, files, now, gen, test, cl, stats, api>>

\* A registered task has not yet fired at this 02:00 instant.
FireDue ==
  /\ sched.active # {}
  /\ IsFireInstant(now)
  /\ sched.lastFire < now

\* The task fires: the callback calls runCleanup(), which runs up to
\* await fs.access.  The callback of the day before has returned.
Trigger ==
  /\ FireDue
  /\ sched.outcome # "running"
  /\ sched' = [sched EXCEPT !.lastFire = now, !.outcome = "running",
                            !.jobFires = sched.jobFires + 1]
  /\ cl' = [cl EXCEPT !["cron"] = [IdleCleaner EXCEPT !.pc = "access"]]
  /\ UNCHANGED <<store, nextId, dbNow, lastUpsert, files, now, gen, test, stats, api>>

\* An exception inside runCleanup's try block and outside the two passes
\* (its logging between the passes) reaches its catch: results.error is
\* set and the error is thrown on to the caller.
CleanThrow(c) ==
  /\ cl[c].pc \in {"access", "getOlder"}
  /\ cl' = [cl EXCEPT ![c].pc = "thrown"]
  /\ UNCHANGED <<store, nextId, dbNow, lastUpsert, files, now, gen, test, stats, sched, api>>

\* const results = await runCleanup() resolved: the callback logs and returns.
TriggerReturn ==
  /\ sched.outcome = "running"
  /\ cl["cron"].pc = "done"
  /\ sched' = [sched EXCEPT !.outcome = "completed"]
  /\ UNCHANGED <<store, nextId, dbNow, lastUpsert, files, now, gen, test, cl, stats, api>>

\* Faulty variant of TriggerCatch: the catch block stops the scheduler.
TriggerCatchStopping ==
  /\ sched.outcome = "running"
  /\ cl["cron"].pc = "thrown"
  /\ sched' = [sched EXCEPT !.outcome = "failed",
                            !.failures = sched.failures + 1,
                            !.active = sched.active \ {sched.cleanupJob},
                            !.cleanupJob = 0]
  /\ UNCHANGED <<store, nextId, dbNow, lastUpsert, files, now, gen, test, cl, stats, api>>

\* await runCleanup() rejected: catch (error) { console.error(...) }
TriggerCatch ==
  /\ sched.outcome = "running"
  /\ cl["cron"].pc = "thrown"
  /\ sched' = [sched EXCEPT !.outcome = "failed",
                            !.failures = sched.failures + 1]
  /\ UNCHANGED <<store, nextId, dbNow, lastUpsert, files, now, gen, test, cl, stats, api>>

\* getSchedulerStatus(): running: cleanupJob !== null,
\* nextRun: cleanupJob ? getNextRunTime() : null
GetSchedulerStatus ==
  /\ sched' = [sched EXCEPT
        !.running = (sched.cleanupJob # 0),
        !.nextRun = IF sched.cleanupJob # 0 THEN GetNextRunTime(now) ELSE 0,
        !.statusAt = now,
        !.statusJob = sched.cleanupJob]
  /\ UNCHANGED <<store, nextId, dbNow, lastUpsert, files, now, gen, test, cl, stats, api>>

\* The process clock advances, up to the given number of ticks after start.
TickUpTo(horizon) ==
  /\ now < StartNow + horizon
  /\ now' = now + 1
  /\ UNCHANGED <<store, nextId, dbNow, lastUpsert, files, gen, test, cl, stats, sched, api>>

\* The process clock advances.
Tick == TickUpTo(MaxTicks)

\* The clock passes a 02:00 instant once the registered task has fired.
SchedTick ==
  /\ ~FireDue
  /\ TickUpTo(SchedHorizon)

(***************************************************************************)
(* routes/newsletter.js: the GET routes and DELETE /:id                    *)
(***************************************************************************)
\* get: the path segment, the date it names, the limit query parameter, the
\* status of the answer and the rows it carries.  del: the x-api-key header,
\* the id parameter, whether a row with that id was in the table when the
\* request arrived (history), and the status of the answer.
\* A request parameter is <<>> when absent or not numeric, else <<n>>.
IdleApi ==
  [get |-> [seg |-> "none", date |-> NoDay, limit |-> <<>>, resp |-> "none",
            rows |-> <<>>],
   del |-> [apiKey |-> "unread", id |-> <<>>, existed |-> FALSE, resp |-> "none"]]

CompleteRows(st) == {row \in st : row.generation_status = "complete"}

\* Faulty variant of GetLatest: the WHERE clause is missing.
GetLatestAnyStatus(st) ==
  IF st = {} THEN <<>>
  ELSE <<CHOOSE row \in st : \A o \in st : o.updated_at <= row.updated_at>>

\* Newsletter.getLatest: WHERE generation_status = 'complete'
\* ORDER BY updated_at DESC LIMIT 1; result.rows
GetLatest(st) ==
  IF CompleteRows(st) = {} THEN <<>>
  ELSE <<CHOOSE row \in CompleteRows(st) :
           \A o \in CompleteRows(st) : o.updated_at <= row.updated_at>>

\* ORDER BY publish_date DESC
RECURSIVE ByDateDesc(_)
ByDateDesc(S) ==
  IF S = {} THEN <<>>
  ELSE LET m == CHOOSE x \in S : \A y \in S : y.publish_date <= x.publish_date
       IN <<m>> \o ByDateDesc(S \ {m})

\* Newsletter.getHistory: WHERE generation_status = 'complete'
\* ORDER BY publish_date DESC LIMIT $1
GetHistory(st, limit) ==
  LET all == ByDateDesc(CompleteRows(st))
  IN SubSeq(all, 1, IF Len(all) < limit THEN Len(all) ELSE limit)

\* Newsletter.getByDate: result.rows (rows[0] || null)
GetByDate(st, d) ==
  IF RowsFor(st, d) = {} THEN <<>> ELSE <<Returned(st, d)>>

\* The GET routes in the order router.get registers them.
Routes == <<"/latest", "/:date", "/history">>

Segs == {"latest", "history", "date", "junk"}

\* Express: a literal path matches its own segment, /:date any segment.
RouteMatches(route, seg) ==
  \/ route = "/:date"
  \/ route = "/latest" /\ seg = "latest"
  \/ route = "/history" /\ seg = "history"

\* The first registered route that matches handles the request.
FirstRoute(seg) ==
  Routes[CHOOSE i \in 1..Len(Routes) :
           /\ RouteMatches(Routes[i], seg)
           /\ \A j \in 1..(i - 1) : ~RouteMatches(Routes[j], seg)]

\* /^\d{4}-\d{2}-\d{2}$/.test(date)
DateFormatOk(seg) == seg = "date"

DEFAULT_LIMIT == 30
MAX_LIMIT == 365
\* The values of ?limit= that are followed.
Limits == {<<>>, <<0>>, <<1>>, <<2>>, <<MAX_LIMIT>>, <<MAX_LIMIT + 1>>}

\* parseInt(req.query.limit) || 30: NaN and 0 are falsy.
ParsedLimit(q) == IF q = <<>> \/ q = <<0>> THEN DEFAULT_LIMIT ELSE q[1]

\* The answer of the handler of `route` to GET /api/newsletter/<seg>, the
\* queries resolving.
Answer(route, seg, d, q) ==
  CASE route = "/latest" ->
         [resp |-> IF GetLatest(store) = <<>> THEN "404" ELSE "200",
          rows |-> GetLatest(store)]
    [] route = "/:date" ->
         IF ~DateFormatOk(seg) THEN [resp |-> "400", rows |-> <<>>]
         ELSE [resp |-> IF GetByDate(store, d) = <<>> THEN "404" ELSE "200",
               rows |-> GetByDate(store, d)]
    [] route = "/history" ->
         IF ParsedLimit(q) < 1 \/ ParsedLimit(q) > MAX_LIMIT
         THEN [resp |-> "400", rows |-> <<>>]
         ELSE [resp |-> "200", rows |-> GetHistory(store, ParsedLimit(q))]

\* A GET request under /api/newsletter: dispatch, handler, answer.  A
\* rejected query is answered 500 by the handler's catch.
ApiGet(seg, d, q) ==
  /\ LET route == FirstRoute(seg)
         req == [seg |-> seg, date |-> IF seg = "date" THEN d ELSE NoDay,
                 limit |-> IF seg = "history" THEN q ELSE <<>>]
         ans == Answer(route, seg, d, q)
     IN \/ api' = [api EXCEPT !.get = [seg |-> req.seg, date |-> req.date,
                                       limit |-> req.limit,
                                       resp |-> ans.resp, rows |-> ans.rows]]
        \/ /\ ans.resp # "400"
           /\ api' = [api EXCEPT !.get = [seg |-> req.seg, date |-> req.date,
                                          limit |-> req.limit,
                                          resp |-> "500", rows |-> <<>>]]
  /\ UNCHANGED <<store, nextId, dbNow, lastUpsert, files, now, gen, test, cl, stats, sched>>

\* The methods of the Newsletter object.
NewsletterMethods ==
  {"create", "getByDate", "getLatest", "getHistory", "update", "delete",
   "exists", "getPool", "getAll", "getOlderThan", "deleteOlderThan"}

\* The values of the :id parameter that are followed.
IdParams == {<<>>, <<1>>, <<3>>, <<9>>}

\* router.delete('/:id'): 401, 400 on NaN, then Newsletter.getById(id),
\* 404, Newsletter.deleteById(id).  Calling a method the object does not
\* have throws a TypeError, which the handler's catch answers with 500.
ApiDelete(apiKey, idq) ==
  /\ LET existed == idq # <<>> /\ \E row \in store : row.id = idq[1]
         resp ==
           IF apiKey # API_SECRET_KEY THEN "401"
           ELSE IF idq = <<>> THEN "400"
           ELSE IF "getById" \notin NewsletterMethods THEN "500"
           ELSE IF ~existed THEN "404"
           ELSE IF "deleteById" \notin NewsletterMethods THEN "500"
           ELSE "200"
     IN /\ api' = [api EXCEPT !.del = [apiKey |-> apiKey, id |-> idq,
                                       existed |-> existed, resp |-> resp]]
        /\ IF resp = "200"
           THEN store' = {row \in store : row.id # idq[1]}
           ELSE store' = store
  /\ UNCHANGED <<nextId, dbNow, lastUpsert, files, now, gen, test, cl, stats, sched>>

(***************************************************************************)
(* Initial states and specifications                                       *)
(***************************************************************************)
\* Rows and files left by earlier days: a complete newsletter of OldDay, a
\* failed one of EdgeDay and a complete one of Today; an audio file one tick
\* older than the audio cutoff at start, one exactly at it and a fresh one.
SeedStore ==
  {InsertedRow(Values(CompleteData(OldDay, "a")), 1, 1),
   InsertedRow(Values(FailedData(EdgeDay, ContentErrorMessage)), 2, 2),
   InsertedRow(Values(CompleteData(Today, "b")), 3, 3)}

SeedFiles ==
  [d \in Dates |->
     IF d = OldDay THEN [mtime |-> AudioCutoff(StartNow) - 1, kind |-> "tts"]
     ELSE IF d = EdgeDay THEN [mtime |-> AudioCutoff(StartNow), kind |-> "tts"]
     ELSE [mtime |-> StartNow - 1, kind |-> "tts"]]

NoFiles == [d \in {} |-> d]

Init ==
  /\ store \in {{}, SeedStore}
  /\ nextId = Cardinality(SeedStore) + 1
  /\ dbNow = Cardinality(SeedStore) + 1
  /\ files \in {NoFiles, SeedFiles}
  /\ now = StartNow
  /\ gen = [r \in Runs |-> IdleRun]
  /\ test = IdleTest
  /\ cl = [c \in Cleaners |-> IdleCleaner]
  /\ lastUpsert = {}
  /\ stats = IdleStats
  /\ sched = IdleSched
  /\ api = IdleApi

DateKinds == {"missing", "malformed", "valid"}

\* One step of the request r, whose date is drawn from ds.
GenStep(r, ds) ==
  \/ \E apiKey \in ApiKeys, kind \in DateKinds, d \in ds : Request(r, apiKey, kind, d)
  \/ GenStep1(r)
  \/ GenContent(r)
  \/ GenTts(r)
  \/ GenWrite(r)
  \/ GenPlaceholder(r)
  \/ GenFinal(r)
  \/ GenCatch(r)

TestNext ==
  \/ TestStart
  \/ TestCreate1
  \/ TestCreate2
  \/ TestGet
  \/ TestDelete

\* One step of the runCleanup() call c.
CleanStep(c) ==
  \/ CleanStart(c)
  \/ CleanAccess(c)
  \/ CleanReaddir(c)
  \/ CleanStat(c)
  \/ CleanUnlink(c)
  \/ CleanGetOlder(c)
  \/ CleanDeleteOlder(c)

\* Spec: two POST /generate requests, for any dates, interleaved at their awaits.
Next == \E r \in Runs : GenStep(r, Dates)

Spec == Init /\ [][Next]_vars

\* SpecStore: every writer of the table at once, on a seeded table: two
\* requests (both may name Today, the date of the upsert script; one may
\* name OldDay, a date the cleanup deletes) and the scheduled cleanup, which
\* found no audio directory and enters cleanupNewsletterRecords.
StoreDates(r) == IF r = "r1" THEN {OldDay, Today} ELSE {Today}

InitStore ==
  /\ store = SeedStore
  /\ nextId = Cardinality(SeedStore) + 1
  /\ dbNow = Cardinality(SeedStore) + 1
  /\ files = NoFiles
  /\ now = StartNow
  /\ gen = [r \in Runs |-> IdleRun]
  /\ test = IdleTest
  /\ cl = [c \in Cleaners |->
             IF c = "cron"
             THEN [IdleCleaner EXCEPT !.pc = "getOlder", !.textCutoff = TextCutoff(StartNow)]
             ELSE IdleCleaner]
  /\ lastUpsert = {}
  /\ stats = IdleStats
  /\ sched = IdleSched
  /\ api = IdleApi

NextStore ==
  \/ \E r \in Runs : GenStep(r, StoreDates(r))
  \/ TestNext
  \/ CleanGetOlder("cron")
  \/ CleanDeleteOlder("cron")

SpecStore == InitStore /\ [][NextStore]_vars

\* SpecCleanup: the scheduled and a manual runCleanup() at once, while the
\* clock advances.
NextCleanup ==
  \/ \E c \in Cleaners : CleanStep(c)
  \/ Tick

SpecCleanup == Init /\ [][NextCleanup]_vars

\* SpecCleanupTwice: runCleanup() twice in a row: the manual call starts
\* once the scheduled one has returned, and nothing else writes.
NextCleanupTwice ==
  \/ CleanStep("cron")
  \/ (cl["cron"].pc = "done" /\ CleanStep("manual"))
  \/ Tick

SpecCleanupTwice == Init /\ [][NextCleanupTwice]_vars

\* SpecDryRun: getCleanupStats(), then runCleanup() once the snapshot is
\* returned, nothing else writing, while the clock advances.
NextDryRun ==
  \/ StatsStep
  \/ (stats.pc = "done" /\ CleanStep("manual"))
  \/ Tick

SpecDryRun == Init /\ [][NextDryRun]_vars

\* SpecMixed: a generation for Today (a date inside both retention windows)
\* and the scheduled cleanup at once, while the clock advances.
NextMixed ==
  \/ GenStep("r1", {Today})
  \/ CleanStep("cron")
  \/ Tick

SpecMixed == Init /\ [][NextMixed]_vars

\* SpecScheduler: any startCleanupScheduler, stopCleanupScheduler and
\* getSchedulerStatus calls while the clock runs over two days and the
\* registered task fires and runs runCleanup() in its callback, on an empty
\* table and an empty directory: runCleanup() lists the directory, asks the
\* table for old rows, and has nothing to stat, unlink or delete.
NextScheduler ==
  \/ StartCleanupScheduler
  \/ StopCleanupScheduler
  \/ GetSchedulerStatus
  \/ Trigger
  \/ CleanAccess("cron")
  \/ CleanReaddir("cron")
  \/ CleanGetOlder("cron")
  \/ CleanThrow("cron")
  \/ TriggerReturn
  \/ TriggerCatch
  \/ SchedTick

InitScheduler ==
  /\ store = {}
  /\ nextId = Cardinality(SeedStore) + 1
  /\ dbNow = Cardinality(SeedStore) + 1
  /\ files = NoFiles
  /\ now = StartNow
  /\ gen = [r \in Runs |-> IdleRun]
  /\ test = IdleTest
  /\ cl = [c \in Cleaners |-> IdleCleaner]
  /\ lastUpsert = {}
  /\ stats = IdleStats
  /\ sched = IdleSched
  /\ api = IdleApi

SpecScheduler == InitScheduler /\ [][NextScheduler]_vars

\* SpecApi: GET and DELETE requests under /api/newsletter beside a
\* generation for EdgeDay (whose record is failed) or Today (whose record is
\* complete).
NextApi ==
  \/ GenStep("r1", {EdgeDay, Today})
  \/ \E seg \in Segs \ {"date", "history"} : ApiGet(seg, NoDay, <<>>)
  \/ \E d \in Dates : ApiGet("date", d, <<>>)
  \/ \E q \in Limits : ApiGet("history", NoDay, q)
  \/ \E apiKey \in ApiKeys, idq \in IdParams : ApiDelete(apiKey, idq)

SpecApi == Init /\ [][NextApi]_vars

\* SpecRerun: one request, for any date, on a table and a directory that may
\* hold the date's record and audio file of an earlier run, while the clock
\* advances.
NextRerun ==
  \/ GenStep("r1", Dates)
  \/ Tick

SpecRerun == Init /\ [][NextRerun]_vars

\* SpecLive: two requests (both may name Today, one may name EdgeDay, whose
\* record is failed at the start) in which every awaited call returns (with a value
\* or an error) and every statement sent to the database succeeds.  A step
\* of a run past the route's checks is the resumption of an await, which
\* the event loop performs once the call has returned: weak fairness.
GenStepOk(r) ==
  \/ GenStep1(r) /\ nextId' # nextId
  \/ GenContent(r)
  \/ GenTts(r)
  \/ GenWrite(r)
  \/ GenPlaceholder(r)
  \/ GenFinal(r) /\ nextId' # nextId
  \/ GenCatch(r) /\ nextId' # nextId

LiveDates(r) == IF r = "r1" THEN {EdgeDay, Today} ELSE {Today}

NextLive ==
  \/ \E r \in Runs : \E apiKey \in ApiKeys, kind \in DateKinds, d \in LiveDates(r) :
       Request(r, apiKey, kind, d)
  \/ \E r \in Runs : GenStepOk(r)

SpecLive == Init /\ [][NextLive]_vars /\ \A r \in Runs : WF_vars(GenStepOk(r))

(***************************************************************************)
(* Properties                                                              *)
(***************************************************************************)
\* The data of the Newsletter.create call that the step from the current
\* state to the next one completes (one process moves per step).
RunsMoving(pc) == {r \in Runs : gen[r].pc = pc /\ gen'[r] # gen[r]}

UpsertsOfStep ==
  IF nextId' = nextId THEN {}
  ELSE {GeneratingData(gen[r].date) : r \in RunsMoving("step1")}
       \cup {CompleteData(gen[r].date, gen[r].content) : r \in RunsMoving("final")}
       \cup {FailedData(gen[r].date, gen[r].err) : r \in RunsMoving("catch")}
       \cup (IF test.pc = "create1" /\ test' # test THEN {TestData(1)} ELSE {})
       \cup (IF test.pc = "create2" /\ test' # test THEN {TestData(2)} ELSE {})

\* The content fields of a row are those of data.
HoldsData(row, data) ==
  /\ row.title = data.title
  /\ row.hook = data.hook
  /\ row.sections = data.sections
  /\ row.conclusion = data.conclusion
  /\ row.sources = data.sources
  /\ row.audio_url = data.audio_url
  /\ row.audio_duration_seconds = data.audio_duration_seconds
  /\ row.generation_status = data.generation_status
  /\ row.error_message = data.error_message

\* C1: under every interleaving of generation runs, direct upserts, deletes
\* and the cleanup, the table holds at most one row per publish_date; and a
\* date for which an upsert has completed (two generation runs of the same
\* date, say) and that has not been deleted since holds exactly one.
C1_OneRowPerDate ==
  \A d \in Dates :
    /\ Cardinality(RowsFor(store, d)) <= 1
    /\ (\E x \in lastUpsert : x.publish_date = d) => Cardinality(RowsFor(store, d)) = 1

\* Both requests, for the same date, have returned, the script has made its
\* two upserts of that date, the cleanup has deleted: one row of the date.
C1_Witness ==
  /\ \A r \in Runs : gen[r].pc = "done" /\ gen[r].resp = "200" /\ gen[r].date = Today
  /\ test.pc = "get" /\ test.date = Today
  /\ cl["cron"].pc = "done" /\ cl["cron"].newslettersDeleted = 1
  /\ Cardinality(RowsFor(store, Today)) = 1

UpsertFrame(data) ==
  LET d == data.publish_date
      old == RowsFor(store, d)
      new == RowsFor(store', d)
  IN /\ {row \in store' : row.publish_date # d} = {row \in store : row.publish_date # d}
     /\ old # {} =>
          \E o \in old, n \in new :
            /\ old = {o}
            /\ new = {n}
            /\ n.id = o.id
            /\ n.publish_date = o.publish_date
            /\ n.created_at = o.created_at
            /\ n.updated_at > o.updated_at
            /\ HoldsData(n, data)

\* C2: an upsert of a date that has a row overwrites every content field
\* (title, hook, sections, conclusion, sources, audio_url,
\* audio_duration_seconds, generation_status, error_message) with the new
\* values and sets updated_at to a later instant; id, publish_date and
\* created_at keep their values; the rows of other dates do not change.
C2_UpsertFrame ==
  [][nextId' # nextId => UpsertsOfStep # {} /\ \A data \in UpsertsOfStep : UpsertFrame(data)]_vars

\* The seeded row of Today (id 3, created at instant 3) after the script's
\* second upsert: same id and created_at, new content, later updated_at.
C2_Witness ==
  \E row \in store :
    /\ row.publish_date = Today
    /\ row.id = 3
    /\ row.created_at = 3
    /\ row.updated_at > 4
    /\ row.title = "Test Newsletter v2 - UPDATED"
    /\ row.audio_url = Null

\* C3 (as the specification states it): POST /generate answers 202 with
\* status "generating" once the step-1 upsert is done and before the content
\* collaborator is invoked; so a request whose content collaborator has
\* returned has been answered 202.
C3_AnswersBeforeContent ==
  \A r \in Runs :
    gen[r].pc \in {"tts", "write", "placeholder", "final"} => gen[r].resp = "202"

\* The step ends request r.
Finishes(r) == gen[r].pc # "done" /\ gen'[r].pc = "done"

\* The step completes an upsert of request r that leaves the date's row
\* failed with an error message.
EndsFailed(r) ==
  /\ nextId' # nextId
  /\ \E row \in RowsFor(store', gen[r].date) :
       row.generation_status = "failed" /\ row.error_message # Null

PcRank(pc) ==
  CASE pc = "idle" -> 0
    [] pc = "step1" -> 1
    [] pc = "content" -> 2
    [] pc = "tts" -> 3
    [] pc = "write" -> 4
    [] pc = "placeholder" -> 5
    [] pc = "final" -> 6
    [] pc = "catch" -> 7
    [] pc = "done" -> 8

AllowedStatusChange(old, new) ==
  \/ old = new
  \/ <<old, new>> \in {<<"pending", "generating">>,
                       <<"generating", "complete">>, <<"generating", "failed">>,
                       <<"complete", "generating">>, <<"failed", "generating">>}

\* C5 (as the specification states it): the status of a date's record only
\* changes pending -> generating -> complete or failed, and from complete
\* or failed back to generating; never from complete to failed or from
\* failed to complete in one write, even when two runs for the date are in
\* flight.  (Stated for the writes of runs none of whose statements the
\* database has rejected.)
C5_StatusMachine ==
  [][(\A r \in Runs : gen[r].err # DbErrorMessage) =>
       \A o \in store : \A n \in store' :
         o.publish_date = n.publish_date
           => AllowedStatusChange(o.generation_status, n.generation_status)]_vars

C7_AudioUrlAfterWrite ==
  [][\A r \in Runs :
       (gen'[r] # gen[r] /\ nextId' # nextId) =>
         /\ (\E row \in RowsFor(store', gen[r].date) : row.audio_url # Null) =>
              /\ gen[r].pc = "final"
              /\ gen[r].wrote
              /\ gen[r].date \in FileNames
         /\ gen[r].pc = "catch" =>
              \A row \in RowsFor(store', gen[r].date) : row.audio_url = Null]_vars

\* A request has been answered 200: its row, written by it, is complete
\* with an audio_url, and the placeholder file it wrote is in the directory.
C7_Witness ==
  \E r \in Runs :
    /\ gen[r].pc = "done" /\ gen[r].resp = "200"
    /\ gen[r].date \in FileNames
    /\ files[gen[r].date].kind = "placeholder"
    /\ \E row \in RowsFor(store, gen[r].date) :
         /\ row.generation_status = "complete"
         /\ row.audio_url = AudioPublicUrl
         /\ row.updated_at > Cardinality(SeedStore)

\* What a cleanup pass has recorded about the audio files.
AudioReportOK(c) ==
  /\ cl[c].deleted = Len(cl[c].delFiles)
  /\ \A i \in 1..Len(cl[c].delFiles) :
       /\ cl[c].delFiles[i].modified < cl[c].audioCutoff
       /\ cl[c].delFiles[i].name \notin FileNames
  /\ (cl[c].pc \in {"getOlder", "deleteOlder", "done"} /\ cl[c].errors = 0) =>
       \A i \in 1..Len(cl[c].list) :
         cl[c].list[i] \in FileNames => files[cl[c].list[i]].mtime >= cl[c].audioCutoff

\* C8: a cleanup pass removes an audio file only if its last-modified time
\* is strictly before the pass's cutoff (the time of the listing minus
\* AUDIO_DAYS days): a file modified exactly at the cutoff or later stays;
\* when the pass reports no error every listed file strictly older than the
\* cutoff is gone; and the pass's count of deleted audio files is the number
\* of files it removed.
C8_AudioRetention ==
  [][/\ files' # files =>
          \E c \in Cleaners :
            /\ cl[c].pc = "unlink"
            /\ CurFile(c) \in FileNames
            /\ files[CurFile(c)].mtime < cl[c].audioCutoff
            /\ DOMAIN files' = FileNames \ {CurFile(c)}
            /\ \A f \in DOMAIN files' : files'[f] = files[f]
            /\ cl'[c].deleted = cl[c].deleted + 1
     /\ \A c \in Cleaners :
          cl'[c].deleted # cl[c].deleted =>
            /\ cl[c].pc = "unlink"
            /\ files' # files
     /\ \A c \in Cleaners : AudioReportOK(c)']_vars

\* The scheduled pass has ended without error: it removed the file one tick
\* older than its cutoff, and the file modified exactly at the cutoff and
\* the fresh one are still there.
C8_Witness ==
  /\ cl["cron"].pc = "done" /\ cl["cron"].errors = 0
  /\ cl["cron"].deleted = 1
  /\ cl["cron"].delFiles[1].name = OldDay
  /\ FileNames = {EdgeDay, Today}
  /\ files[EdgeDay].mtime = cl["cron"].audioCutoff

\* C9: a cleanup pass deletes exactly the records whose publish_date is
\* strictly before its cutoff date (the day of the pass minus
\* NEWSLETTER_DAYS days), whatever their status; a record of the cutoff
\* date or later stays; the pass's count of deleted newsletters is the
\* number of rows removed; after a pass without database error no record
\* before its cutoff is left.
C9_RecordRetention ==
  [][/\ store' # store =>
          \E c \in Cleaners :
            /\ cl[c].pc = "deleteOlder"
            /\ store' = {row \in store : row.publish_date >= cl[c].textCutoff}
            /\ cl'[c].newslettersDeleted = Cardinality(store \ store')
     /\ \A c \in Cleaners :
          cl'[c].newslettersDeleted # cl[c].newslettersDeleted =>
            /\ cl[c].pc = "deleteOlder"
            /\ cl'[c].newslettersDeleted = Cardinality(store \ store')
     /\ \A c \in Cleaners :
          (cl'[c].pc = "done" /\ cl'[c].databaseErrors = 0) =>
            \A row \in store' : row.publish_date >= cl'[c].textCutoff]_vars

\* The scheduled pass has ended: it deleted the (complete) record of the day
\* before its cutoff date and kept the (failed) record of the cutoff date.
C9_Witness ==
  /\ cl["cron"].pc = "done" /\ cl["cron"].databaseErrors = 0
  /\ cl["cron"].textCutoff = EdgeDay
  /\ cl["cron"].newslettersDeleted = 1
  /\ RowsFor(store, OldDay) = {}
  /\ \E row \in RowsFor(store, EdgeDay) : row.generation_status = "failed"
  /\ RowsFor(store, Today) # {}

C12_StatsReadOnly ==
  [][/\ stats' # stats =>
          /\ store' = store
          /\ files' = files
          /\ nextId' = nextId
          /\ dbNow' = dbNow
     /\ cl'["manual"].pc = "idle" =>
          /\ store' \in {{}, SeedStore}
          /\ files' \in {NoFiles, SeedFiles}]_vars

\* A call that hit a store error has returned, and the seeded table and
\* directory, stale rows and files included, are as they were.
C12_Witness ==
  /\ stats.pc = "done" /\ stats.caught > 0 /\ stats.toDelete = 1
  /\ cl["manual"].pc = "idle"
  /\ store = SeedStore
  /\ files = SeedFiles

\* The listed files that are still there and strictly older than the
\* pass's cutoff.
StaleLeft(c) ==
  {i \in 1..Len(cl[c].list) :
     /\ cl[c].list[i] \in FileNames
     /\ files[cl[c].list[i]].mtime < cl[c].audioCutoff}

\* C13: in the audio pass a failure to stat or to delete one file is counted
\* in audioErrors and does not stop the pass: when the pass is over the loop
\* has visited every listed file, each file is counted at most once (as
\* deleted or as an error), and every listed file older than the cutoff that
\* is still there accounts for one counted error: all the others are deleted.
C13_ErrorsDoNotStopPass ==
  \A c \in Cleaners :
    (cl[c].pc \in {"getOlder", "deleteOlder", "done"} /\ cl[c].list # <<>>) =>
      /\ cl[c].idx = Len(cl[c].list)
      /\ cl[c].deleted + cl[c].errors <= Len(cl[c].list)
      /\ Cardinality(StaleLeft(c)) <= cl[c].errors
      /\ cl[c].deleted = Len(cl[c].delFiles)

\* The scheduled pass failed on the first stale file, which is still there,
\* and went on to delete the second one.
C13_Witness ==
  /\ cl["cron"].pc = "done"
  /\ cl["cron"].list = <<OldDay, EdgeDay, Today>>
  /\ cl["cron"].errors = 1 /\ cl["cron"].vanished = 0
  /\ cl["cron"].deleted = 1
  /\ cl["cron"].delFiles[1].name = EdgeDay
  /\ FileNames = {OldDay, Today}

\* C14: the two halves of runCleanup() are isolated.  A rejected
\* getOlderThan or deleteOlderThan is counted in databaseErrors, changes no
\* record, and runCleanup returns its summary (it never throws), with the
\* audio pass's audioFilesDeleted and audioErrors as they were; an error of
\* the audio pass is followed by the next file or by the record pass, and
\* runCleanup returns only out of the record pass.
C14_HalvesIsolated ==
  [][\A c \in Cleaners :
       cl'[c] # cl[c] =>
         /\ cl'[c].pc # "thrown"
         /\ cl[c].pc \in {"getOlder", "deleteOlder"} =>
              /\ cl'[c].pc \in {"deleteOlder", "done"}
              /\ cl'[c].deleted = cl[c].deleted
              /\ cl'[c].errors = cl[c].errors
              /\ cl'[c].delFiles = cl[c].delFiles
         /\ cl'[c].databaseErrors # cl[c].databaseErrors =>
              /\ cl'[c].databaseErrors = cl[c].databaseErrors + 1
              /\ cl'[c].pc = "done"
              /\ store' = store
         /\ cl'[c].errors # cl[c].errors =>
              /\ cl'[c].errors = cl[c].errors + 1
              /\ cl'[c].pc \in {"stat", "getOlder"}
         /\ cl'[c].pc = "done" => cl[c].pc \in {"getOlder", "deleteOlder"}]_vars

\* The scheduled run deleted a file and then its record pass failed; the
\* manual run's audio pass failed at the listing and its record pass deleted
\* a record: both returned their summaries.
C14_Witness ==
  /\ cl["cron"].pc = "done"
  /\ cl["cron"].deleted = 1 /\ cl["cron"].errors = 0
  /\ cl["cron"].databaseErrors = 1 /\ cl["cron"].newslettersDeleted = 0
  /\ cl["manual"].pc = "done"
  /\ cl["manual"].errors = 1 /\ cl["manual"].list = <<>>
  /\ cl["manual"].databaseErrors = 0 /\ cl["manual"].newslettersDeleted = 1

\* The file of date d is the same before and after the step.
SameFile(d) ==
  IF d \in FileNames THEN d \in DOMAIN files' /\ files'[d] = files[d]
  ELSE d \notin DOMAIN files'

\* C15: runCleanup() running at the same time as generate(D), D inside both
\* retention windows, does not interfere with it.  No step of the cleanup
\* changes D's record or D's audio file, and no file vanishes under it; no
\* step of the generation changes a record or a file of another date; the
\* cleanup removes just the files strictly older than its cutoff and just
\* the rows before its cutoff date, as it does alone; and when the generation
\* has returned, D's record is the one it wrote last and, on success, D's
\* audio file is one it wrote.
C15_CleanupBesideGeneration ==
  [][/\ cl' # cl =>
          /\ RowsFor(store', Today) = RowsFor(store, Today)
          /\ SameFile(Today)
          /\ files' # files =>
               /\ cl["cron"].pc = "unlink"
               /\ files[CurFile("cron")].mtime < cl["cron"].audioCutoff
               /\ DOMAIN files' = FileNames \ {CurFile("cron")}
          /\ store' # store =>
               store' = {row \in store : row.publish_date >= cl["cron"].textCutoff}
          /\ cl'["cron"].vanished = 0
     /\ gen' # gen =>
          /\ \A d \in Dates \ {Today} :
               RowsFor(store', d) = RowsFor(store, d) /\ SameFile(d)
     /\ gen'["r1"].pc = "done" =>
          /\ \A x \in lastUpsert' :
               x.publish_date = Today =>
                 \E row \in store' : row.publish_date = Today /\ HoldsData(row, x)
          /\ gen'["r1"].resp = "200" =>
               /\ \E x \in lastUpsert' :
                    x.publish_date = Today /\ x.generation_status = "complete"
               /\ Today \in DOMAIN files'
               /\ files'[Today].kind \in {"tts", "placeholder"}
               /\ files'[Today].mtime >= StartNow]_vars

\* The generation of Today has succeeded and the cleanup has deleted a file
\* and a record of older dates: Today's record and file are the generation's.
C15_Witness ==
  /\ gen["r1"].pc = "done" /\ gen["r1"].resp = "200"
  /\ cl["cron"].pc = "done"
  /\ cl["cron"].deleted = 1 /\ cl["cron"].newslettersDeleted = 1
  /\ FileNames = {EdgeDay, Today}
  /\ files[Today].mtime >= StartNow
  /\ \E row \in RowsFor(store, Today) :
       row.generation_status = "complete" /\ row.updated_at > Cardinality(SeedStore)

\* The names of the files a run reports as deleted.
DeletedNames(c) == {cl[c].delFiles[i].name : i \in 1..Len(cl[c].delFiles)}

\* C16: a file that vanishes between its listing and its stat or unlink,
\* because the scheduled and a manual runCleanup() run at once, is a
\* non-fatal race.  Neither run throws, the run that loses the race counts
\* an error and goes on to the end of its list; no file is reported deleted
\* by both runs or twice by one, and the reported files are exactly the
\* removed ones; a run whose only errors are lost races leaves no listed
\* file older than its cutoff behind.
C16_VanishedFileRace ==
  /\ DeletedNames("cron") \cap DeletedNames("manual") = {}
  /\ FileNames \cup DeletedNames("cron") \cup DeletedNames("manual") \in {{}, Dates}
  /\ \A c \in Cleaners :
       /\ cl[c].pc # "thrown"
       /\ Cardinality(DeletedNames(c)) = cl[c].deleted
       /\ DeletedNames(c) \cap FileNames = {}
       /\ cl[c].vanished <= cl[c].errors
       /\ cl[c].pc \in {"getOlder", "deleteOlder", "done"} =>
            /\ cl[c].list # <<>> => cl[c].idx = Len(cl[c].list)
            /\ cl[c].errors = cl[c].vanished => StaleLeft(c) = {}

\* Both runs listed the stale file; the scheduled one deleted it, the manual
\* one found it gone, counted one error and finished its list.
C16_Witness ==
  /\ cl["cron"].pc = "done" /\ cl["manual"].pc = "done"
  /\ cl["cron"].list = <<OldDay, EdgeDay, Today>>
  /\ cl["manual"].list = <<OldDay, EdgeDay, Today>>
  /\ cl["cron"].deleted = 1 /\ cl["cron"].errors = 0
  /\ cl["manual"].deleted = 0
  /\ cl["manual"].errors = 1 /\ cl["manual"].vanished = 1
  /\ cl["manual"].idx = 3
  /\ FileNames = {EdgeDay, Today}

\* What is left of the seeded directory and table by an audio pass and a
\* record pass with the given cutoffs.
KeptFiles(cutoff) ==
  [d \in {x \in Dates : SeedFiles[x].mtime >= cutoff} |-> SeedFiles[d]]

KeptRows(cutoff) == {row \in SeedStore : row.publish_date >= cutoff}

MaxAudioCutoff ==
  CHOOSE m \in {cl[c].audioCutoff : c \in Cleaners} :
    \A c \in Cleaners : cl[c].audioCutoff <= m

MaxTextCutoff ==
  CHOOSE m \in {cl[c].textCutoff : c \in Cleaners} :
    \A c \in Cleaners : cl[c].textCutoff <= m

\* Both calls have returned, an audio pass without error ran with the latest
\* audio cutoff and a record pass without error with the latest text cutoff.
BothPassesEffective ==
  /\ \A c \in Cleaners : cl[c].pc = "done"
  /\ \E c \in Cleaners : cl[c].errors = 0 /\ cl[c].audioCutoff = MaxAudioCutoff
  /\ \E c \in Cleaners : cl[c].databaseErrors = 0 /\ cl[c].textCutoff = MaxTextCutoff

\* C17: the two retention passes touch disjoint resources.  No step of an
\* audio pass changes a record (the record of a deleted file keeps its
\* status and audio_url), no step of a record pass changes a file; and the
\* stores left by an audio pass and a record pass depend on the two cutoffs
\* only, not on which of the two passes ran first.
C17_PassesDisjoint ==
  [][/\ \A c \in Cleaners :
          cl'[c] # cl[c] =>
            /\ cl[c].pc \in {"idle", "access", "readdir", "stat", "unlink"} =>
                 /\ store' = store
                 /\ nextId' = nextId
                 /\ dbNow' = dbNow
            /\ cl[c].pc \in {"getOlder", "deleteOlder"} => files' = files
     /\ BothPassesEffective' =>
          /\ files' \in {NoFiles, KeptFiles(MaxAudioCutoff')}
          /\ store' \in {{}, KeptRows(MaxTextCutoff')}]_vars

\* The record pass ran first (in the first call, whose audio pass failed at
\* the listing), the audio pass after it (in the second call): the stores
\* are those the two passes leave in the other order.
C17_Witness ==
  /\ BothPassesEffective
  /\ cl["cron"].errors = 1 /\ cl["cron"].list = <<>> /\ cl["cron"].deleted = 0
  /\ cl["cron"].newslettersDeleted = 1
  /\ cl["manual"].errors = 0 /\ cl["manual"].deleted = 1
  /\ cl["manual"].newslettersDeleted = 0
  /\ files = KeptFiles(cl["manual"].audioCutoff)
  /\ store = KeptRows(cl["cron"].textCutoff)
  /\ Cardinality(store) = 2 /\ FileNames = {EdgeDay, Today}

\* The singleton: the registered tasks are the one cleanupJob refers to.
SingleJob ==
  /\ Cardinality(sched.active) <= 1
  /\ sched.active = IF sched.cleanupJob = 0 THEN {} ELSE {sched.cleanupJob}

\* C18: after any sequence of startCleanupScheduler() and
\* stopCleanupScheduler() calls at most one recurring task is active, and it
\* is the one the singleton refers to.  A start on a running scheduler
\* leaves the previous task stopped and the new one registered; a stop
\* leaves no task and a null singleton, and changes nothing when there was
\* no task.
C18_AtMostOneJob ==
  [][/\ SingleJob'
     /\ sched'.created # sched.created =>
          /\ sched.cleanupJob \notin sched'.active
          /\ sched'.cleanupJob \notin sched.active
          /\ sched'.active = {sched'.cleanupJob}
     /\ (sched'.calls # sched.calls /\ sched'.created = sched.created) =>
          /\ sched'.cleanupJob = 0
          /\ sched'.active = {}
          /\ sched.cleanupJob = 0 =>
               sched' = [sched EXCEPT !.calls = sched.calls + 1,
                                      !.idleStops = sched.idleStops + 1]]_vars

\* A stop with no task registered, a start, and a start on the running
\* scheduler: the second task alone is active.
C18_Witness ==
  /\ sched.calls = 3
  /\ sched.idleStops = 1
  /\ sched.created = 2
  /\ sched.cleanupJob = 2
  /\ sched.active = {2}

\* The 02:00 instants after the registered task was created.
FireInstantsSince == {t \in (sched.since + 1)..now : IsFireInstant(t)}

\* The registered task has fired at every 02:00 instant since its creation,
\* the present one at most being due.
FiredEveryDay ==
  sched.cleanupJob # 0 =>
    sched.jobFires + (IF FireDue THEN 1 ELSE 0) = Cardinality(FireInstantsSince)

\* A step that changes the answer of getSchedulerStatus().
StatusAsked ==
  \/ sched'.statusAt # sched.statusAt
  \/ sched'.statusJob # sched.statusJob
  \/ sched'.running # sched.running
  \/ sched'.nextRun # sched.nextRun

\* C19: an exception thrown by runCleanup() inside the scheduled trigger is
\* caught inside the trigger.  No step of the callback, the catch of a
\* rejected runCleanup() included, changes the handle or the set of active
\* tasks; a rejected runCleanup() ends the callback as failed and nowhere
\* else; a status asked after a failure with the handle registered reports
\* running; and the registered task fires at every following 02:00 instant.
C19_TriggerSurvivesFailure ==
  [][/\ (sched'.outcome # sched.outcome \/ cl' # cl) =>
          /\ sched'.cleanupJob = sched.cleanupJob
          /\ sched'.active = sched.active
     /\ (sched.outcome = "running" /\ cl["cron"].pc = "thrown"
           /\ sched'.outcome # sched.outcome) =>
          /\ sched'.outcome = "failed"
          /\ sched'.failures = sched.failures + 1
     /\ (StatusAsked /\ sched.failures > 0 /\ sched.cleanupJob # 0) => sched'.running
     /\ FiredEveryDay']_vars

\* The first trigger's runCleanup() threw; a day later the same task has
\* fired again and the status asked then reports running.
C19_Witness ==
  /\ sched.calls = 1
  /\ sched.cleanupJob = 1
  /\ sched.active = {1}
  /\ sched.failures = 1
  /\ sched.jobFires = 2
  /\ sched.outcome = "running"
  /\ sched.lastFire = StartNow + FireTick + TicksPerDay
  /\ sched.statusAt = sched.lastFire
  /\ sched.running
  /\ sched.nextRun = sched.lastFire + TicksPerDay

\* The first 02:00 instant strictly later than t.
FirstFireAfter(t) ==
  CHOOSE m \in (t + 1)..(t + TicksPerDay) :
    /\ IsFireInstant(m)
    /\ \A k \in (t + 1)..(m - 1) : ~IsFireInstant(k)

C21_FailureNotRethrown ==
  \A r \in Runs :
    (\E row \in RowsFor(store, gen[r].date) :
       /\ row.generation_status = "failed"
       /\ row.error_message = ContentErrorMessage
       /\ row.updated_at > Cardinality(SeedStore))
      => gen[r].resp # "500"

AnswersLatest == api'.get # api.get /\ api'.get.seg = "latest"

\* C23: GET /latest never returns a record whose status is not complete.
\* Answered 200 it carries one row of the table, complete, and no complete
\* row has a greater updated_at; it is answered 404 exactly when the table
\* holds no complete row (a rejected query is answered 500).
C23_LatestIsComplete ==
  [][AnswersLatest =>
       LET complete == {o \in store : o.generation_status = "complete"}
           ans == api'.get
       IN /\ ans.resp \in {"200", "404", "500"}
          /\ ans.resp = "200" =>
               /\ Len(ans.rows) = 1
               /\ ans.rows[1] \in complete
               /\ \A o \in complete : o.updated_at <= ans.rows[1].updated_at
          /\ ans.resp # "200" => ans.rows = <<>>
          /\ ans.resp = "404" => complete = {}
          /\ complete = {} => ans.resp \in {"404", "500"}]_vars

\* Today's record is being regenerated: latest serves the complete record
\* of OldDay, although Today's row was written later.
C23_Witness ==
  /\ api.get.seg = "latest"
  /\ api.get.resp = "200"
  /\ api.get.rows[1].publish_date = OldDay
  /\ \E row \in store :
       /\ row.publish_date = Today
       /\ row.generation_status = "generating"
       /\ row.updated_at > api.get.rows[1].updated_at

\* C24 (as the specification states it): GET /history?limit=N answers 200
\* with at most N complete records for every N from 1 to 365, uses 30 when
\* limit is absent, and answers 400 for every other N.
C24_HistoryLimit ==
  (api.get.seg = "history" /\ api.get.resp \notin {"none", "500"}) =>
    LET n == IF api.get.limit = <<>> THEN 30 ELSE api.get.limit[1]
    IN IF n \in 1..365
       THEN /\ api.get.resp = "200"
            /\ Len(api.get.rows) <= n
            /\ \A i \in 1..Len(api.get.rows) :
                 api.get.rows[i].generation_status = "complete"
       ELSE api.get.resp = "400"

\* C25 (as the specification states it): DELETE /:id with the correct
\* secret and a numeric id removes the row with that id and answers 200, and
\* answers 404 when no row has that id.
C25_DeleteById ==
  (api.del.resp # "none" /\ api.del.apiKey = API_SECRET_KEY /\ api.del.id # <<>>) =>
    IF api.del.existed
    THEN /\ api.del.resp = "200"
         /\ \A row \in store : row.id # api.del.id[1]
    ELSE api.del.resp = "404"

UpsertOfRun(r) ==
  CASE gen[r].pc = "step1" -> GeneratingData(gen[r].date)
    [] gen[r].pc = "final" -> CompleteData(gen[r].date, gen[r].content)
    [] OTHER -> FailedData(gen[r].date, gen[r].err)

InFlight(r, d) == gen[r].date = d /\ gen[r].pc # "done"

\* C29: when every collaborator call returns and every store write
\* succeeds, every run that has started reaches its end, and whenever no
\* run for a date is in flight the date's record is complete or failed,
\* never generating.
C29_RunsTerminate ==
  /\ \A r \in Runs : (gen[r].pc \notin {"idle", "done"}) ~> (gen[r].pc = "done")
  /\ [](\A d \in Dates :
          (\A r \in Runs : ~InFlight(r, d)) =>
            \A row \in RowsFor(store, d) :
              row.generation_status \in {"complete", "failed"})

\* Both requests, for Today, have come to their end, one answered 200 and
\* one 500 after its placeholder audio could not be written; the record is
\* failed.
C29_Witness ==
  /\ gen["r1"].pc = "done" /\ gen["r1"].date = Today /\ gen["r1"].resp = "200"
  /\ gen["r2"].pc = "done" /\ gen["r2"].date = Today /\ gen["r2"].resp = "500"
  /\ \E row \in RowsFor(store, Today) :
       row.generation_status = "failed" /\ row.error_message = FsErrorMessage

\* The content fields of a record are empty: nothing of a generated
\* newsletter is in it.
EmptyContent(row) ==
  /\ row.title \notin {Content(k).title : k \in ContentIds}
  /\ row.hook = ""
  /\ row.sections = <<>>
  /\ row.conclusion = ""
  /\ row.sources = <<>>
  /\ row.audio_url = Null
  /\ row.audio_duration_seconds = NullInt

====
